---------------------------- MODULE Spec2Model ----------------------------
(***************************************************************************)
(* Model of the Citizen Connect ACS pipeline:                              *)
(*   src/sources/acs5.py          transform_dataframe, get_source_acs5     *)
(*   src/update_socrata_dataset.py make_row_id, assign_row_id,             *)
(*                                 validate_dataframe, main                *)
(*                                                                         *)
(* A cell of a dataframe is a tagged value [t, v]: t is the Python type    *)
(* ("str", "int", "float", "geom" or "null"), v the payload.  A Python     *)
(* string is a sequence of one-character strings, so that slicing          *)
(* (year_date[:4]), joining ("|".join) and str(int) are computed and not   *)
(* assumed.  A dataframe is [cols, rows]: the set of column labels and the *)
(* sequence of rows, each row a function from the column labels to cells.  *)
(***************************************************************************)
EXTENDS Integers, Sequences, FiniteSets, TLC

VARIABLES
    pc,                 \* position of main (or of the table harness)
    idx,                \* index of the source the loop of main is at
    raw,                \* dataframe returned by Query.run() for this source
    dataframe,          \* main's local `dataframe`
    dataframe_is_valid, \* main's local `dataframe_is_valid`
    published,          \* argument of update_socrata_dataset for this source
    calls,              \* history: the calls made so far, <<function, source>>
    log,                \* history: the log records, <<level, message, source>>
    exit_code           \* process exit status: 0 unless an exception escaped

vars == <<pc, idx, raw, dataframe, dataframe_is_valid, published, calls, log, exit_code>>

----------------------------------------------------------------------------
(* Bounds of the model *)

\* Largest number of rows of a table returned by the fetch / given to the harness.
MaxRows == 2

\* Number of entries of the `sources` mapping main iterates over.
NumSources == 2

----------------------------------------------------------------------------
(* Cells and Python strings *)

NULL == [t |-> "null", v |-> <<>>]
Str(s) == [t |-> "str", v |-> s]
Int64(n) == [t |-> "int", v |-> n]
Float(n) == [t |-> "float", v |-> n]
Point == [t |-> "geom", v |-> <<"Point">>]

\* pd.notnull(x) and x is not None
notnull(x) == x.t # "null"

Digits == <<"0", "1", "2", "3", "4", "5", "6", "7", "8", "9">>

RECURSIVE IntToStr(_)
\* str(n) of a non-negative Python int
IntToStr(n) ==
    IF n < 10 THEN <<Digits[n + 1]>>
    ELSE IntToStr(n \div 10) \o <<Digits[(n % 10) + 1]>>

\* format(x) / str(x) of a cell, as a Python string
PyStr(x) ==
    CASE x.t = "str" -> x.v
      [] x.t = "int" -> IntToStr(x.v)
      [] x.t = "float" -> IntToStr(x.v) \o <<".", "0">>
      [] OTHER -> <<"<", "N", "A", ">">>

\* s[:n]
Take(s, n) == SubSeq(s, 1, IF Len(s) < n THEN Len(s) ELSE n)

IsDigit(c) == \E i \in 1..10 : Digits[i] = c

RECURSIVE StrToInt(_)
\* int(s) of a Python string of digits
StrToInt(s) ==
    IF Len(s) = 0 THEN 0
    ELSE 10 * StrToInt(SubSeq(s, 1, Len(s) - 1))
         + (CHOOSE i \in 0..9 : Digits[i + 1] = s[Len(s)])

RECURSIVE Concat(_)
\* "".join(parts)
Concat(parts) ==
    IF Len(parts) = 0 THEN <<>> ELSE Head(parts) \o Concat(Tail(parts))

\* the row `row` with column c set to cell x
WithCol(row, c, x) == [f \in (DOMAIN row) \cup {c} |-> IF f = c THEN x ELSE row[f]]

NoTable == [cols |-> {}, rows |-> <<>>]

----------------------------------------------------------------------------
(* update_socrata_dataset.py: make_row_id, assign_row_id *)

id_fields == <<"source", "variable", "denominator_variable", "year", "geo_id">>

\* "|".join("{f}" for f in id_fields): a sequence of template items, each a
\* replacement field (kind "field", arg the field's name) or literal text
\* (kind "text", arg the character)
row_id_template ==
    [i \in 1..(2 * Len(id_fields) - 1) |->
        IF i % 2 = 1 THEN [kind |-> "field", arg |-> id_fields[(i + 1) \div 2]]
        ELSE [kind |-> "text", arg |-> "|"]]

\* row_values without the null test: a null is formatted as it is
row_values_keeps_null(row) ==
    [f \in {id_fields[i] : i \in 1..Len(id_fields)} |-> row[f]]

\* row_values[id_field] = row[id_field] if value_is_not_null else ""
row_values(row) ==
    [f \in {id_fields[i] : i \in 1..Len(id_fields)} |->
        IF notnull(row[f]) THEN row[f] ELSE Str(<<>>)]

\* template.format_map(values)
format_map(template, values) ==
    Concat([i \in 1..Len(template) |->
        IF template[i].kind = "field" THEN PyStr(values[template[i].arg])
        ELSE <<template[i].arg>>])

make_row_id(row) == Str(format_map(row_id_template, row_values(row)))

\* dataframe.assign(row_id=dataframe.apply(make_row_id, axis=1))
assign_row_id(df) ==
    [cols |-> df.cols \cup {"row_id"},
     rows |-> [i \in 1..Len(df.rows) |->
                 WithCol(df.rows[i], "row_id", make_row_id(df.rows[i]))]]

----------------------------------------------------------------------------
(* update_socrata_dataset.py: validate_dataframe *)

\* dt.now().year
CurrentYear == 2026

\* Check.greater_than_or_equal_to(2000)
MinYear == 2000

DaysInMonth(y, m) ==
    IF m \in {4, 6, 9, 11} THEN 30
    ELSE IF m # 2 THEN 31
    ELSE IF (y % 4 = 0 /\ y % 100 # 0) \/ y % 400 = 0 THEN 29
    ELSE 28

\* dt.strptime(value, "%Y-%m-%d") does not raise ValueError: four digits of
\* year, one or two of month and of day, and a date of the calendar
validate_year_date(value) ==
    \E lm \in 1..2, ld \in 1..2 :
        /\ Len(value) = 6 + lm + ld
        /\ \A i \in (1..4) \cup (6..(5 + lm)) \cup ((7 + lm)..(6 + lm + ld)) :
              IsDigit(value[i])
        /\ value[5] = "-"
        /\ value[6 + lm] = "-"
        /\ LET y == StrToInt(SubSeq(value, 1, 4))
               m == StrToInt(SubSeq(value, 6, 5 + lm))
               d == StrToInt(SubSeq(value, 7 + lm, 6 + lm + ld))
           IN  y >= 1 /\ m \in 1..12 /\ d \in 1..DaysInMonth(y, m)

\* wkt.loads(value) succeeds and gives a geometry of type Point: the text
\* starts with the POINT keyword
validate_location(value) == Take(value, 5) = <<"P", "O", "I", "N", "T">>

Col(dtype, nullable) == [dtype |-> dtype, nullable |-> nullable]

\* The columns of the DataFrameSchema
schema_columns ==
    [source               |-> Col("str", FALSE),
     topic                |-> Col("str", TRUE),
     concept              |-> Col("str", TRUE),
     variable             |-> Col("str", FALSE),
     label                |-> Col("str", FALSE),
     value                |-> Col("float", FALSE),
     denominator_variable |-> Col("str", TRUE),
     denominator_label    |-> Col("str", TRUE),
     denominator          |-> Col("float", TRUE),
     year                 |-> Col("int", FALSE),
     year_date            |-> Col("str", FALSE),
     geo_id               |-> Col("str", FALSE),
     geo_name             |-> Col("str", FALSE),
     geo_type             |-> Col("str", FALSE),
     location             |-> Col("str", FALSE),
     row_id               |-> Col("str", FALSE)]

\* coerce=True on one cell: astype(dtype); a string column coerces only its
\* non-null cells, a null stays null
coerce_cell(x, dtype) ==
    CASE dtype = "str" -> IF notnull(x) THEN Str(PyStr(x)) ELSE x
      [] dtype = "int" -> IF x.t = "str" THEN Int64(StrToInt(x.v))
                          ELSE IF x.t = "float" THEN Int64(x.v) ELSE x
      [] dtype = "float" -> IF x.t = "int" THEN Float(x.v) ELSE x

\* the copy of the dataframe the checks run on
coerce(df) ==
    [cols |-> df.cols,
     rows |-> [i \in 1..Len(df.rows) |->
                 [f \in DOMAIN df.rows[i] |->
                     coerce_cell(df.rows[i][f], schema_columns[f].dtype)]]]

\* strict=True: the columns are exactly those of the schema
check_strict(df) == df.cols = DOMAIN schema_columns

\* Column(dtype, nullable): every cell has the dtype, or is null where allowed
check_dtypes(df) ==
    \A i \in 1..Len(df.rows) : \A f \in DOMAIN schema_columns :
        LET x == df.rows[i][f] IN
        IF notnull(x) THEN x.t = schema_columns[f].dtype
        ELSE schema_columns[f].nullable

\* the checks of the columns year, year_date and location
check_columns(df) ==
    \A i \in 1..Len(df.rows) :
        LET row == df.rows[i] IN
        /\ row["year"].v <= CurrentYear
        /\ row["year"].v >= MinYear
        /\ validate_year_date(row["year_date"].v)
        /\ validate_location(row["location"].v)

\* the row_id column declared without allow_duplicates=False
check_row_id_duplicates_allowed(df) == TRUE

\* Column("row_id", allow_duplicates=False)
check_row_id_unique(df) ==
    \A i, j \in 1..Len(df.rows) :
        i # j => df.rows[i]["row_id"] # df.rows[j]["row_id"]

\* the alignment check with the slice one character short
check_year_date_aligned_short_slice(df) ==
    \A i \in 1..Len(df.rows) :
        Take(df.rows[i]["year_date"].v, 3) = Take(PyStr(df.rows[i]["year"]), 3)

\* Check(lambda df: df["year_date"][:4] == df["year"].astype(str), element_wise=True):
\* row by row, the year an integer whose astype(str) is its decimal text
check_year_date_aligned(df) ==
    \A i \in 1..Len(df.rows) :
        Take(df.rows[i]["year_date"].v, 4) = PyStr(df.rows[i]["year"])

\* the row_id check passing when some row matches rather than every row
check_row_id_matches_any(df) ==
    \/ Len(df.rows) = 0
    \/ \E i \in 1..Len(df.rows) : df.rows[i]["row_id"] = make_row_id(df.rows[i])

\* Check(lambda df: df["row_id"] == df.apply(make_row_id, axis=1))
check_row_id_matches(df) ==
    \A i \in 1..Len(df.rows) : df.rows[i]["row_id"] = make_row_id(df.rows[i])

\* schema.validate(dataframe) raises no SchemaError
validate_dataframe(df) ==
    /\ check_strict(df)
    /\ LET c == coerce(df) IN
       /\ check_dtypes(c)
       /\ check_columns(c)
       /\ check_row_id_unique(c)
       /\ check_year_date_aligned(c)
       /\ check_row_id_matches(c)

----------------------------------------------------------------------------
(* sources/acs5.py: transform_dataframe *)

ACS5 == <<"A", "C", "S", "5">>
DP05_0017E == <<"D", "P", "0", "5", "_", "0", "0", "1", "7", "E">>
DP05_0018E == <<"D", "P", "0", "5", "_", "0", "0", "1", "8", "E">>
S0101_C01_026E == <<"S", "0", "1", "0", "1", "_", "C", "0", "1", "_", "0", "2", "6", "E">>
S0101_C01_028E == <<"S", "0", "1", "0", "1", "_", "C", "0", "1", "_", "0", "2", "8", "E">>
DP05_0002E == <<"D", "P", "0", "5", "_", "0", "0", "0", "2", "E">>

\* the variables of ACS5_VARIABLES the model requests: the two superseded
\* pairs and one variable whose meaning did not change
ACS5_VARIABLES ==
    {DP05_0017E, DP05_0018E, S0101_C01_026E, S0101_C01_028E, DP05_0002E}

\* the list `schema` of transform_dataframe
schema ==
    {"source", "topic", "concept", "variable", "label", "value",
     "denominator_variable", "denominator_label", "denominator", "year",
     "year_date", "geo_id", "geo_name", "geo_type", "location"}

\* the mask with the boundary of the successor codes one year early
keep_row_early_boundary(row) ==
    ~(\/ /\ row["variable_code"] \in {Str(DP05_0018E), Str(S0101_C01_028E)}
         /\ row["year"].v < 2016
      \/ /\ row["variable_code"] \in {Str(DP05_0017E), Str(S0101_C01_026E)}
         /\ row["year"].v >= 2017)

\* the complement of the mask of lines 85-98
keep_row(row) ==
    ~(\/ /\ row["variable_code"] \in {Str(DP05_0018E), Str(S0101_C01_028E)}
         /\ row["year"].v <= 2016
      \/ /\ row["variable_code"] \in {Str(DP05_0017E), Str(S0101_C01_026E)}
         /\ row["year"].v >= 2017)

\* autocensus.geography.serialize_to_wkt of a point geometry
serialize_to_wkt(geometry) ==
    Str(<<"P", "O", "I", "N", "T", " ", "(", "0", " ", "0", ")">>)

\* pd.read_csv("sources/acs5_labels.csv"): one line per requested variable
acs5_labels ==
    {[variable |-> Str(code), topic |-> Str(<<"T">>), concept |-> Str(<<"C">>),
      label |-> Str(<<"L">> \o code)] : code \in ACS5_VARIABLES}

\* lines 101-109 on one row
assign_columns(row) ==
    [f \in (DOMAIN row) \cup {"source", "variable", "denominator_variable",
                              "denominator_label", "denominator", "year_date",
                              "geo_name", "location"} |->
        CASE f = "source" -> Str(ACS5)
          [] f = "variable" -> row["variable_code"]
          [] f = "value" -> row["value"]
          [] f = "denominator_variable" -> NULL
          [] f = "denominator_label" -> NULL
          [] f = "denominator" -> NULL
          [] f = "year_date" -> row["date"]
          [] f = "geo_name" -> row["name"]
          [] f = "location" -> serialize_to_wkt(row["geometry"])
          [] OTHER -> row[f]]

\* dataframe.merge(labels, how="left", on="variable") on one row
merge_labels(row, labels) ==
    LET hits == {l \in labels : l.variable = row["variable"]} IN
    [f \in (DOMAIN row) \cup {"topic", "concept", "label"} |->
        IF f \in {"topic", "concept", "label"}
        THEN IF hits = {} THEN NULL ELSE (CHOOSE l \in hits : TRUE)[f]
        ELSE row[f]]

\* dataframe[label] / dataframe.loc[:, labels] raises KeyError
KeyError(cols, labels) == ~(labels \subseteq cols)

\* the projection as a reindex: a label that is no column becomes a column of nulls
loc_columns_reindex(df, labels) ==
    [raised |-> FALSE,
     df |-> [cols |-> labels,
             rows |-> [i \in 1..Len(df.rows) |->
                         [f \in labels |->
                             IF f \in DOMAIN df.rows[i] THEN df.rows[i][f] ELSE NULL]]]]

\* dataframe.loc[:, labels]
loc_columns(df, labels) ==
    IF KeyError(df.cols, labels) THEN [raised |-> TRUE, df |-> NoTable]
    ELSE [raised |-> FALSE,
          df |-> [cols |-> labels,
                  rows |-> [i \in 1..Len(df.rows) |->
                              [f \in labels |-> df.rows[i][f]]]]]

\* dataframe["value"].notnull() on one row
value_notnull(row) == notnull(row["value"])

\* the null filter left out
keep_null_values(rows) == rows

\* dataframe.loc[dataframe["value"].notnull()]
drop_null_values(rows) == SelectSeq(rows, value_notnull)

\* the result is [raised, df]: raised when a KeyError escapes the function
transform_dataframe(source_dataframe) ==
    IF KeyError(source_dataframe.cols,
                {"variable_code", "year", "value", "date", "name", "geometry"})
    THEN [raised |-> TRUE, df |-> NoTable]
    ELSE
        LET kept == SelectSeq(source_dataframe.rows, keep_row)
            assigned == [i \in 1..Len(kept) |-> assign_columns(kept[i])]
            merged == [i \in 1..Len(assigned) |-> merge_labels(assigned[i], acs5_labels)]
            cols == source_dataframe.cols
                      \cup {"source", "variable", "denominator_variable",
                            "denominator_label", "denominator", "year_date",
                            "geo_name", "location", "topic", "concept", "label"}
            adopted == loc_columns([cols |-> cols, rows |-> merged], schema)
        IN  IF adopted.raised THEN adopted
            ELSE [raised |-> FALSE,
                  df |-> [cols |-> adopted.df.cols,
                          rows |-> drop_null_values(adopted.df.rows)]]

----------------------------------------------------------------------------
(* The tables Query.run() may return (get_source_acs5, lines 132-140) *)

\* the columns of an autocensus dataframe that the pipeline reads
RawColumns ==
    {"variable_code", "year", "value", "date", "name", "geometry", "geo_id",
     "geo_type"}

\* the years of the query on either side of the 2017 boundary
QueryYears == {2016, 2017}

Date(y) == Str(IntToStr(y) \o <<"-", "0", "1", "-", "0", "1">>)

RawRow(code, y, value, date) ==
    [f \in RawColumns |->
        CASE f = "variable_code" -> Str(code)
          [] f = "year" -> Int64(y)
          [] f = "value" -> value
          [] f = "date" -> date
          [] f = "name" -> Str(<<"N">>)
          [] f = "geometry" -> Point
          [] f = "geo_id" -> Str(<<"0", "1">>)
          [] f = "geo_type" -> Str(<<"c">>)]

\* the date of a row is a day of the row's year; a value may be missing
RawRows ==
    {RawRow(code, y, value, Date(y)) :
        code \in ACS5_VARIABLES, y \in QueryYears, value \in {NULL, Float(1)}}

SeqsUpTo(S, n) == UNION {[1..k -> S] : k \in 0..n}

\* a table with all the columns, or one that lacks a column the normalizer needs
MissingColumns == {{}, {"geo_id"}, {"date"}, {"variable_code"}}

Without(rows, missing) ==
    [i \in 1..Len(rows) |-> [f \in (DOMAIN rows[i]) \ missing |-> rows[i][f]]]

RawTables ==
    {[cols |-> RawColumns \ missing, rows |-> Without(rows, missing)] :
        missing \in MissingColumns, rows \in SeqsUpTo(RawRows, MaxRows)}

----------------------------------------------------------------------------
(* update_socrata_dataset.py: main *)

\* sources.items(): the loop is over NumSources entries, each fetched and
\* normalized by get_source_acs5
Sources == 1..NumSources

Call(fn, src) == <<fn, src>>
Log(level, message, src) == <<level, message, src>>

\* `break` in the place of `continue`
break_loop(i) == NumSources + 1

\* `continue` (line 167): the loop goes on with the next entry
continue_loop(i) == i + 1

\* the test of line 165 never taken
skip_source_never(is_valid) == FALSE

\* `if dataframe_is_valid is not True:` (line 165)
skip_source(is_valid) == is_valid # TRUE

Init ==
    /\ pc = "loop"
    /\ idx = 1
    /\ raw = NoTable
    /\ dataframe = NoTable
    /\ dataframe_is_valid = FALSE
    /\ published = NoTable
    /\ calls = <<>>
    /\ log = <<>>
    /\ exit_code = 0

\* an exception escapes main: nothing catches it, the interpreter prints the
\* traceback and exits with status 1
Raise ==
    /\ pc' = "crashed"
    /\ exit_code' = 1

\* line 158, the mapping is exhausted: main returns and the process exits 0
LoopEnd ==
    /\ pc = "loop"
    /\ idx \notin Sources
    /\ pc' = "done"
    /\ UNCHANGED <<idx, raw, dataframe, dataframe_is_valid, published, calls, log, exit_code>>

\* lines 159-160 and 131-140: source_function() runs the query, which returns a table
FetchReturns ==
    /\ pc = "loop"
    /\ idx \in Sources
    /\ \E table \in RawTables : raw' = table
    /\ pc' = "transform"
    /\ calls' = Append(calls, Call("get_source", idx))
    /\ log' = Append(log, Log("INFO", "Getting data for source", idx))
    /\ UNCHANGED <<idx, dataframe, dataframe_is_valid, published, exit_code>>

\* lines 159-160 and 131-140: the query raises
FetchRaises ==
    /\ pc = "loop"
    /\ idx \in Sources
    /\ Raise
    /\ calls' = Append(calls, Call("get_source", idx))
    /\ log' = Append(log, Log("INFO", "Getting data for source", idx))
    /\ UNCHANGED <<idx, raw, dataframe, dataframe_is_valid, published>>

\* lines 141-143 and 160: transform_dataframe returns the normalized table
TransformReturns ==
    /\ pc = "transform"
    /\ ~transform_dataframe(raw).raised
    /\ dataframe' = transform_dataframe(raw).df
    /\ pc' = "assign"
    /\ calls' = Append(calls, Call("transform_dataframe", idx))
    /\ UNCHANGED <<idx, raw, dataframe_is_valid, published, log, exit_code>>

\* lines 141-143 and 160: transform_dataframe raises KeyError
TransformRaises ==
    /\ pc = "transform"
    /\ transform_dataframe(raw).raised
    /\ Raise
    /\ calls' = Append(calls, Call("transform_dataframe", idx))
    /\ UNCHANGED <<idx, raw, dataframe, dataframe_is_valid, published, log>>

\* line 161
AssignRowId ==
    /\ pc = "assign"
    /\ dataframe' = assign_row_id(dataframe)
    /\ pc' = "validate"
    /\ calls' = Append(calls, Call("assign_row_id", idx))
    /\ UNCHANGED <<idx, raw, dataframe_is_valid, published, log, exit_code>>

\* lines 163-164 and 125-131
Validate ==
    /\ pc = "validate"
    /\ dataframe_is_valid' = validate_dataframe(dataframe)
    /\ pc' = "branch"
    /\ calls' = Append(calls, Call("validate_dataframe", idx))
    /\ log' = log \o <<Log("INFO", "Validating dataframe for source", idx)>>
                  \o (IF validate_dataframe(dataframe) THEN <<>>
                      ELSE <<Log("WARNING", "Failed to validate dataframe", idx)>>)
    /\ UNCHANGED <<idx, raw, dataframe, published, exit_code>>

\* lines 165-167: the table was rejected; `continue` starts the next iteration,
\* whose locals are assigned before they are read
SkipSource ==
    /\ pc = "branch"
    /\ skip_source(dataframe_is_valid)
    /\ log' = Append(log, Log("WARNING", "Validation failed; skipping to next source", idx))
    /\ idx' = continue_loop(idx)
    /\ pc' = "loop"
    /\ raw' = NoTable
    /\ dataframe' = NoTable
    /\ dataframe_is_valid' = FALSE
    /\ published' = NoTable
    /\ UNCHANGED <<calls, exit_code>>

\* lines 172-173: update_socrata_dataset is called with the dataframe
PublishCall ==
    /\ pc = "branch"
    /\ ~skip_source(dataframe_is_valid)
    /\ published' = dataframe
    /\ pc' = "publish"
    /\ calls' = Append(calls, Call("update_socrata_dataset", idx))
    /\ log' = Append(log, Log("INFO", "Updating Socrata dataset for source", idx))
    /\ UNCHANGED <<idx, raw, dataframe, dataframe_is_valid, exit_code>>

\* lines 137-149 and 174: the revision is applied, its URL logged
PublishReturns ==
    /\ pc = "publish"
    /\ log' = Append(log, Log("INFO", "Updated Socrata dataset", idx))
    /\ idx' = idx + 1
    /\ pc' = "loop"
    /\ raw' = NoTable
    /\ dataframe' = NoTable
    /\ dataframe_is_valid' = FALSE
    /\ published' = NoTable
    /\ UNCHANGED <<calls, exit_code>>

\* lines 137-146: the Socrata client raises
PublishRaises ==
    /\ pc = "publish"
    /\ Raise
    /\ UNCHANGED <<idx, raw, dataframe, dataframe_is_valid, published, calls, log>>

Next ==
    \/ LoopEnd
    \/ FetchReturns
    \/ FetchRaises
    \/ TransformReturns
    \/ TransformRaises
    \/ AssignRowId
    \/ Validate
    \/ SkipSource
    \/ PublishCall
    \/ PublishReturns
    \/ PublishRaises

Spec == Init /\ [][Next]_vars

----------------------------------------------------------------------------
(* Canonical tables given directly to assign_row_id and validate_dataframe *)

\* a Canonical Row: the cells of the identifying fields, of the fields that
\* are no part of the identity, and the stored row_id
CanonRow(den, y, value, label, date, row_id) ==
    [f \in DOMAIN schema_columns |->
        CASE f = "source" -> Str(ACS5)
          [] f = "topic" -> NULL
          [] f = "concept" -> NULL
          [] f = "variable" -> Str(<<"V">>)
          [] f = "label" -> label
          [] f = "value" -> value
          [] f = "denominator_variable" -> den
          [] f = "denominator_label" -> NULL
          [] f = "denominator" -> NULL
          [] f = "year" -> Int64(y)
          [] f = "year_date" -> date
          [] f = "geo_id" -> Str(<<"0", "1">>)
          [] f = "geo_name" -> Str(<<"N">>)
          [] f = "geo_type" -> Str(<<"c">>)
          [] f = "location" -> serialize_to_wkt(Point)
          [] f = "row_id" -> row_id]

\* the fields outside the identity: a base row and one variation of each
Payloads ==
    {[value |-> Float(1), label |-> Str(<<"L">>), aligned |-> TRUE],
     [value |-> Float(2), label |-> Str(<<"L">>), aligned |-> TRUE],
     [value |-> Float(1), label |-> Str(<<"M">>), aligned |-> TRUE],
     [value |-> Float(1), label |-> Str(<<"L">>), aligned |-> FALSE]}

CanonYears == {2018, 2019}

\* a row_id as the caller stored it: that of the row's own identifying
\* fields, that of the row of the other year, or one that writes a null as a word
StoredRowId(den, y, kind) ==
    LET text(d, yy) == ACS5 \o <<"|", "V", "|">> \o d \o <<"|">> \o IntToStr(yy)
                            \o <<"|", "0", "1">>
        d == IF notnull(den) THEN den.v ELSE <<>>
    IN  CASE kind = "own" -> Str(text(d, y))
          [] kind = "other" -> Str(text(d, IF y = 2018 THEN 2019 ELSE 2018))
          [] kind = "word" -> Str(text(IF notnull(den) THEN den.v ELSE <<"N", "o", "n", "e">>, y))

CanonRows ==
    {CanonRow(den, y, p.value, p.label,
              Date(IF p.aligned THEN y ELSE y + 1), StoredRowId(den, y, kind)) :
        den \in {NULL, Str(<<"D">>)}, y \in CanonYears, p \in Payloads,
        kind \in {"own", "other", "word"}}

CanonTables ==
    {[cols |-> DOMAIN schema_columns, rows |-> rows] :
        rows \in SeqsUpTo(CanonRows, MaxRows)}

InitTable ==
    /\ pc = "table_input"
    /\ idx = 1
    /\ raw = NoTable
    /\ dataframe \in CanonTables
    /\ dataframe_is_valid = FALSE
    /\ published = NoTable
    /\ calls = <<>>
    /\ log = <<>>
    /\ exit_code = 0

\* assign_row_id applied to the table
TableAssign ==
    /\ pc = "table_input"
    /\ dataframe' = assign_row_id(dataframe)
    /\ pc' = "table_assigned"
    /\ calls' = Append(calls, Call("assign_row_id", idx))
    /\ UNCHANGED <<idx, raw, dataframe_is_valid, published, log, exit_code>>

\* validate_dataframe applied to the table, as given or as assign_row_id returned it
TableValidate ==
    /\ pc \in {"table_input", "table_assigned"}
    /\ dataframe_is_valid' = validate_dataframe(dataframe)
    /\ pc' = "table_validated"
    /\ calls' = Append(calls, Call("validate_dataframe", idx))
    /\ UNCHANGED <<idx, raw, dataframe, published, log, exit_code>>

NextTable == TableAssign \/ TableValidate

SpecTable == InitTable /\ [][NextTable]_vars

----------------------------------------------------------------------------
(* Properties *)

Called(fn, src) == \E k \in 1..Len(calls) : calls[k] = Call(fn, src)
Logged(level, message, src) == \E k \in 1..Len(log) : log[k] = Log(level, message, src)

\* validate_dataframe has returned for the table main holds
Judged == pc \in {"branch", "publish"}

\* the decimal text of the years of the model, written out
YearText(y) ==
    CASE y = 2016 -> <<"2", "0", "1", "6">>
      [] y = 2017 -> <<"2", "0", "1", "7">>
      [] y = 2018 -> <<"2", "0", "1", "8">>
      [] y = 2019 -> <<"2", "0", "1", "9">>

\* the text of a string cell, a null as the empty string
TextOrEmpty(x) == IF x.t = "null" THEN <<>> ELSE x.v

\* the identity of a row, written out field by field
RecomputedId(row) ==
    Str(TextOrEmpty(row["source"]) \o <<"|">>
        \o TextOrEmpty(row["variable"]) \o <<"|">>
        \o TextOrEmpty(row["denominator_variable"]) \o <<"|">>
        \o YearText(row["year"].v) \o <<"|">>
        \o TextOrEmpty(row["geo_id"]))

SameIdentity(r1, r2) ==
    \A i \in 1..Len(id_fields) : r1[id_fields[i]] = r2[id_fields[i]]

RowIds(df) == {df.rows[i]["row_id"] : i \in 1..Len(df.rows)}

\* C1: update_socrata_dataset is called for a source only after
\* validate_dataframe returned True for that source's table, and it is given
\* that table whole: the rows assign_row_id returned, none dropped or added.
\* A source whose table failed validation has no publish call.
C1_PublishOnlyValidWholeTable ==
    /\ \A i \in Sources :
          Called("update_socrata_dataset", i) =>
              /\ Called("validate_dataframe", i)
              /\ ~Logged("WARNING", "Failed to validate dataframe", i)
    /\ pc = "publish" =>
          /\ dataframe_is_valid = TRUE
          /\ validate_dataframe(published)
          /\ published = dataframe
          /\ published = assign_row_id(transform_dataframe(raw).df)
    /\ (pc = "branch" /\ ~validate_dataframe(dataframe)) => dataframe_is_valid = FALSE

C1_Witness ==
    /\ pc = "publish"
    /\ Len(published.rows) = 2
    /\ Called("update_socrata_dataset", idx)

\* C2: when validate_dataframe rejects the table of a source, main logs the
\* failure, never calls the publisher for that source, and the loop goes on:
\* the next configured source is fetched, the rejection ends neither the loop
\* nor the process, and a run that ends normally has fetched every source.
C2_RejectionSkipsOnlyThatSource ==
    \A i \in Sources :
        Logged("WARNING", "Failed to validate dataframe", i) =>
            /\ ~Called("update_socrata_dataset", i)
            /\ idx = i => pc = "branch"
            /\ idx # i =>
                  /\ idx = i + 1 \/ Called("get_source", i + 1)
                  /\ Logged("WARNING", "Validation failed; skipping to next source", i)
                  /\ (i + 1 \in Sources /\ pc \in {"done", "crashed"}) =>
                        Called("get_source", i + 1)
            /\ pc = "done" => \A j \in Sources : Called("get_source", j)

C2_Witness ==
    /\ Logged("WARNING", "Validation failed; skipping to next source", 1)
    /\ Called("get_source", 2)
    /\ pc = "transform"

\* C3 (as claimed): when the fetch, the normalization or the publish step of
\* a source fails with an error, the process still exits zero and every
\* configured source is still processed.
C3_FailureFatalForSourceOnly ==
    pc \in {"done", "crashed"} =>
        /\ exit_code = 0
        /\ \A j \in Sources : Called("get_source", j)

\* C4: when the raw table lacks a column the normalizer requires,
\* transform_dataframe raises instead of returning a table, and for that
\* source assign_row_id, validate_dataframe and update_socrata_dataset are
\* never reached: main holds no table of that source.
C4_MissingColumnIsFatal ==
    (Called("transform_dataframe", idx) /\ ~(RawColumns \subseteq raw.cols)) =>
        /\ pc = "crashed"
        /\ dataframe = NoTable
        /\ published = NoTable
        /\ ~Called("assign_row_id", idx)
        /\ ~Called("validate_dataframe", idx)
        /\ ~Called("update_socrata_dataset", idx)

C4_Witness ==
    /\ pc = "crashed"
    /\ Called("transform_dataframe", idx)
    /\ "geo_id" \notin raw.cols
    /\ Len(raw.rows) = 2

\* C5: the row_id assign_row_id stores is source, variable,
\* denominator_variable, year and geo_id in that order joined by "|", a null
\* field written as the empty string; rows that agree on those five fields
\* get the same row_id whatever their value, label and year_date.
C5_RowIdFormat ==
    (pc = "table_assigned") =>
        /\ \A i \in 1..Len(dataframe.rows) :
              dataframe.rows[i]["row_id"] = RecomputedId(dataframe.rows[i])
        /\ \A i, j \in 1..Len(dataframe.rows) :
              SameIdentity(dataframe.rows[i], dataframe.rows[j]) =>
                  dataframe.rows[i]["row_id"] = dataframe.rows[j]["row_id"]

C5_Witness ==
    /\ pc = "table_assigned"
    /\ Len(dataframe.rows) = 2
    /\ SameIdentity(dataframe.rows[1], dataframe.rows[2])
    /\ dataframe.rows[1]["denominator_variable"] = NULL
    /\ dataframe.rows[1]["value"] # dataframe.rows[2]["value"]

C7_AcceptedRowIdsDistinct ==
    /\ (Judged /\ dataframe_is_valid) =>
          Cardinality(RowIds(dataframe)) = Len(dataframe.rows)
    /\ pc = "publish" => Cardinality(RowIds(published)) = Len(published.rows)

C7_Witness ==
    /\ pc = "branch"
    /\ Len(dataframe.rows) = 2
    /\ dataframe.rows[1] = dataframe.rows[2]
    /\ check_year_date_aligned(dataframe)
    /\ ~dataframe_is_valid

\* C8: in a table validate_dataframe accepted, the first four characters of
\* every row's year_date are the decimal text of its year; a table with a
\* row such as year 2018 and year_date "2019-01-01" is rejected as a whole.
C8_AcceptedYearDateAligned ==
    (pc = "table_validated" /\ dataframe_is_valid) =>
        \A i \in 1..Len(dataframe.rows) :
            /\ Len(dataframe.rows[i]["year_date"].v) >= 4
            /\ SubSeq(dataframe.rows[i]["year_date"].v, 1, 4)
                  = YearText(dataframe.rows[i]["year"].v)

C8_Witness ==
    /\ pc = "table_validated"
    /\ Called("assign_row_id", idx)
    /\ Len(dataframe.rows) = 2
    /\ dataframe.rows[1]["year"] = Int64(2019)
    /\ dataframe.rows[1]["year_date"] = Date(2019)
    /\ dataframe.rows[2]["year"] = Int64(2018)
    /\ dataframe.rows[2]["year_date"] = Date(2019)
    /\ check_row_id_unique(dataframe)
    /\ ~dataframe_is_valid

\* the pairs (old code, new code) superseded at the boundary year 2017
Superseded == {<<DP05_0017E, DP05_0018E>>, <<S0101_C01_026E, S0101_C01_028E>>}

\* the rows the rule of the superseded codes excludes
Excluded(code, y) ==
    \E pair \in Superseded :
        \/ code = Str(pair[1]) /\ y >= 2017
        \/ code = Str(pair[2]) /\ y < 2017

RawKept(row) == ~Excluded(row["variable_code"], row["year"].v) /\ notnull(row["value"])

\* main holds the table transform_dataframe returned for `raw`
Transformed == pc \in {"assign", "validate", "branch", "publish"}

\* C9: the output of transform_dataframe has no row of an old code in 2017
\* or later and none of a new code before 2017; the rows of an old code up to
\* 2016, of a new code from 2017 on and of every other variable are all
\* there, in order, unless their value is null.
C9_SupersededCodesFiltered ==
    Transformed =>
        /\ \A i \in 1..Len(dataframe.rows) :
              ~Excluded(dataframe.rows[i]["variable"], dataframe.rows[i]["year"].v)
        /\ LET kept == SelectSeq(raw.rows, RawKept) IN
           /\ Len(dataframe.rows) = Len(kept)
           /\ \A i \in 1..Len(kept) :
                 /\ dataframe.rows[i]["variable"] = kept[i]["variable_code"]
                 /\ dataframe.rows[i]["year"] = kept[i]["year"]
                 /\ dataframe.rows[i]["value"] = kept[i]["value"]
                 /\ dataframe.rows[i]["year_date"] = kept[i]["date"]

C9_Witness ==
    /\ pc = "assign"
    /\ Len(raw.rows) = 2
    /\ raw.rows[1]["variable_code"] = Str(DP05_0017E)
    /\ raw.rows[1]["year"] = Int64(2017)
    /\ raw.rows[2]["variable_code"] = Str(DP05_0018E)
    /\ raw.rows[2]["year"] = Int64(2017)
    /\ notnull(raw.rows[1]["value"])
    /\ Len(dataframe.rows) = 1
    /\ dataframe.rows[1]["variable"] = Str(DP05_0018E)

\* C10: no row of the table transform_dataframe returned has a null value,
\* so neither has the table given to assign_row_id, to the validator and to
\* the publisher: a raw row with a null value is absent from the output.
C10_NoNullValue ==
    /\ \A i \in 1..Len(dataframe.rows) : notnull(dataframe.rows[i]["value"])
    /\ \A i \in 1..Len(published.rows) : notnull(published.rows[i]["value"])
    /\ Transformed =>
          Len(dataframe.rows)
              <= Cardinality({i \in 1..Len(raw.rows) : notnull(raw.rows[i]["value"])})

C10_Witness ==
    /\ pc = "assign"
    /\ Len(raw.rows) = 2
    /\ raw.rows[1]["value"] = NULL
    /\ raw.rows[2]["value"] # NULL
    /\ Len(dataframe.rows) = 1
    /\ dataframe.rows[1]["variable"] = raw.rows[2]["variable_code"]

=============================================================================
